---- MODULE Spec2Model ----
(***************************************************************************)
(* Nested-condition matching of the payload index:                         *)
(*   lib/segment/src/payload_storage/nested_query_checker.rs               *)
(*   lib/segment/src/index/query_optimization/nested_filter.rs             *)
(* The checkers are pure functions of (point, payload/index snapshot), so  *)
(* every specification below draws a snapshot in its Init and its actions  *)
(* call the functions of the source and record what they return.           *)
(***************************************************************************)
EXTENDS Integers, Sequences, FiniteSets

VARIABLES
    pc,              \* which calls have been made on the snapshot
    nested_results,  \* merge engines: the positions each of the N checkers returns
    must_opt,        \* merge engines: "None" or "Some" (Option<Vec<Condition>>)
    payload,         \* the point's payload below the nested path
    nested_filter,   \* Filter {must, should, must_not} of the nested condition
    condition,       \* the FieldCondition under dispatch
    field_indexes,   \* IndexesMap: one entry, full path -> Vec<FieldIndex>
    chosen,          \* checker built by nested_condition_converter
    matching,        \* Vec<usize> returned by a payload checker
    index_result,    \* NestedConditionCheckerResult returned by the built checker
    res_payload,     \* outcome of check_all_nested_conditions / check_nested_filter
    res_index,       \* outcome of the merged ConditionCheckerFn
    evaluated,       \* conditions the nested_checker closure was called with
    res_twin,        \* outcome of check_nested_filter on a filter with the same `must`
    points,          \* the payload of every point of the segment
    calls,           \* per caller: the locals of its running call of a merged checker
    params,          \* arguments of QuantizedMmapStorageBuilder::new
    builder,         \* QuantizedMmapStorageBuilder {mmap, cursor_pos}
    storage,         \* QuantizedMmapStorage {mmap} returned by build()
    pushed,          \* the slices handed to push_vector_data so far
    got              \* what the last get_vector_data returned

vars == <<pc, nested_results, must_opt, payload, nested_filter, condition,
          field_indexes, chosen, matching, index_result, res_payload,
          res_index, evaluated, res_twin, points, calls, params, builder,
          storage, pushed, got>>

callVars == <<points, calls>>
mmapVars == <<params, builder, storage, pushed, got>>

(***************************************************************************)
(* Bounds                                                                  *)
(***************************************************************************)
MaxConds == 3      \* conditions in one `must` list
MaxPos == 3        \* element positions 0 .. MaxPos-1 in the merge engines
MaxElems == 2      \* elements of the nested array of a payload
MaxMust == 2       \* conditions in the `must` list of a nested filter
MaxIndexes == 2    \* indexes registered for one full path
MaxVectors == 2    \* vectors_count of the mmap storage
MaxVecSize == 2    \* quantized_vector_size, in bytes

(***************************************************************************)
(* Generic helpers                                                         *)
(***************************************************************************)
SeqsUpTo(S, n) == UNION {[1..k -> S] : k \in 0..n}

RECURSIVE Flatten(_)
Flatten(lists) ==
    IF lists = <<>> THEN <<>> ELSE Head(lists) \o Flatten(Tail(lists))

Elems(s) == {s[i] : i \in 1..Len(s)}

StrictlyIncreasing(s) == \A i \in 1..Len(s) : \A j \in 1..Len(s) : i < j => s[i] < s[j]

\* the ascending Vec<usize> holding exactly the positions of S
RECURSIVE SortedSeq(_)
SortedSeq(S) ==
    IF S = {} THEN <<>>
    ELSE LET m == CHOOSE x \in S : \A y \in S : x <= y
         IN <<m>> \o SortedSeq(S \ {m})

BoolStr(b) == IF b THEN "true" ELSE "false"

(***************************************************************************)
(* Positional AND-merge, payload path (nested_query_checker.rs)            *)
(***************************************************************************)
EmptyMap == [k \in {} |-> 0]

\* `*matches.entry(m).or_insert(0) += 1` for every m, in order
RECURSIVE Tally(_, _)
Tally(keys, matches) ==
    IF keys = <<>> THEN matches
    ELSE LET m == Head(keys)
             cur == IF m \in DOMAIN matches THEN matches[m] ELSE 0
         IN Tally(Tail(keys),
                  [k \in DOMAIN matches \cup {m} |->
                       IF k = m THEN cur + 1 ELSE matches[k]])

\* a plausible slip: a position matched by some condition is enough
AnyCountIsOr(matches, condition_count) ==
    \E k \in DOMAIN matches : matches[k] >= 1

\* matches.iter().any(|(_, count)| *count == condition_count)
AnyCountIs(matches, condition_count) ==
    \E k \in DOMAIN matches : matches[k] = condition_count

\* must: [some |-> BOOLEAN, lists |-> the Vec<usize> the checker gives per condition]
check_all_nested_conditions(must) ==
    IF ~must.some THEN TRUE
    ELSE LET condition_count == Len(must.lists)
             matching_paths == Flatten(must.lists)
             matches == Tally(matching_paths, EmptyMap)
         IN AnyCountIs(matches, condition_count)

(***************************************************************************)
(* Positional AND-merge, index path (nested_filter.rs)                     *)
(***************************************************************************)
Digit(d) == <<"0", "1", "2", "3", "4", "5", "6", "7", "8", "9">>[d + 1]

\* usize::to_string: the decimal digits, most significant first
RECURSIVE to_string(_)
to_string(i) ==
    IF i < 10 THEN <<Digit(i)>> ELSE to_string(i \div 10) \o <<Digit(i % 10)>>

NoMatch == [tag |-> "NoMatch", paths |-> <<>>]
Matches(paths) == [tag |-> "Matches", paths |-> paths]

from_matches(ms) == IF ms = <<>> THEN NoMatch ELSE Matches(ms)

from_indexes(indexes) ==
    LET values == [i \in 1..Len(indexes) |-> to_string(indexes[i])]
    IN IF values = <<>> THEN NoMatch ELSE Matches(values)

\* the loop over nested_checkers: NoMatch adds nothing, Matches(paths)
\* increments the count of each path
RECURSIVE TallyResults(_, _)
TallyResults(results, matches) ==
    IF results = <<>> THEN matches
    ELSE LET r == Head(results)
         IN TallyResults(Tail(results),
                         IF r.tag = "NoMatch" THEN matches
                         ELSE Tally(r.paths, matches))

\* a plausible slip: only the checkers that returned Matches are counted
merge_nested_condition_checkers_count_matching(results) ==
    LET condition_count == Cardinality({i \in 1..Len(results) : results[i].tag = "Matches"})
        matches == TallyResults(results, EmptyMap)
    IN AnyCountIs(matches, condition_count)

\* results: what each nested checker returns for the point, in order
merge_nested_condition_checkers(results) ==
    LET condition_count == Len(results)
        matches == TallyResults(results, EmptyMap)
    IN AnyCountIs(matches, condition_count)

(***************************************************************************)
(* SpecMerge: the two merge engines on the same per-condition positions    *)
(***************************************************************************)
Positions == 0..(MaxPos - 1)

\* the position lists a checker can return: ascending, without duplicates
PositionLists == {SortedSeq(S) : S \in SUBSET Positions}

NoPayload == [shape |-> "none", elems |-> <<>>]
NoFilter == [must |-> [some |-> FALSE, conds |-> <<>>],
             should |-> [some |-> FALSE, conds |-> <<>>],
             must_not |-> [some |-> FALSE, conds |-> <<>>]]
NoCondition == [kind |-> "none"]
NoIndexes == [path |-> "none", indexes |-> <<>>]

NoPoints == <<>>
NoCalls == <<>>
CallVarsUnused == points = NoPoints /\ calls = NoCalls

NoParams == [vectors_count |-> 0, quantized_vector_size |-> 0, file |-> <<>>]
NoBuilder == [state |-> "none", mmap |-> <<>>, cursor_pos |-> 0]
NoStorage == [built |-> FALSE, mmap |-> <<>>]
NoGot == [index |-> 0, ok |-> FALSE, data |-> <<>>]
MmapVarsUnused ==
    /\ params = NoParams
    /\ builder = NoBuilder
    /\ storage = NoStorage
    /\ pushed = <<>>
    /\ got = NoGot

InitMerge ==
    /\ pc = "start"
    /\ must_opt \in {"None", "Some"}
    /\ nested_results \in SeqsUpTo(PositionLists, MaxConds)
    /\ (must_opt = "None" => nested_results = <<>>)
    /\ payload = NoPayload
    /\ nested_filter = NoFilter
    /\ condition = NoCondition
    /\ field_indexes = NoIndexes
    /\ chosen = "unset"
    /\ matching = <<>>
    /\ index_result = NoMatch
    /\ res_payload = "unset"
    /\ res_index = "unset"
    /\ evaluated = {}
    /\ res_twin = "unset"
    /\ CallVarsUnused
    /\ MmapVarsUnused

\* check_all_nested_conditions(checker, must) with a checker that returns
\* nested_results[i] for the i-th condition
CallCheckAllNestedConditions ==
    /\ res_payload = "unset"
    /\ res_payload' = BoolStr(check_all_nested_conditions(
                          [some |-> must_opt = "Some", lists |-> nested_results]))
    /\ UNCHANGED <<pc, nested_results, must_opt, payload, nested_filter, condition,
                   field_indexes, chosen, matching, index_result, res_index, evaluated,
                   res_twin, callVars, mmapVars>>

\* merged(point_id), merged = merge_nested_condition_checkers(checkers), the
\* i-th checker returning from_indexes(nested_results[i])
CallMergedChecker ==
    /\ res_index = "unset"
    /\ res_index' = BoolStr(merge_nested_condition_checkers(
                        [i \in 1..Len(nested_results) |-> from_indexes(nested_results[i])]))
    /\ UNCHANGED <<pc, nested_results, must_opt, payload, nested_filter, condition,
                   field_indexes, chosen, matching, index_result, res_payload, evaluated,
                   res_twin, callVars, mmapVars>>

NextMerge == CallCheckAllNestedConditions \/ CallMergedChecker

SpecMerge == InitMerge /\ [][NextMerge]_vars

\* C1: a nested filter with no `must` condition (must = None, must = Some([]),
\* or an empty checker vector) matches every point.
C1_VacuousTruth ==
    Len(nested_results) = 0 =>
        /\ (res_payload # "unset" => res_payload = "true")
        /\ (res_index # "unset" => res_index = "true")

Common == {p \in Positions : \A i \in 1..Len(nested_results) : p \in Elems(nested_results[i])}

\* C2: with N > 0 conditions both merge engines return true iff some position
\* is in the result of every condition; A={0,1},B={0} matches, A={0,1},B={2}
\* does not.
C2_AndAcrossPositions ==
    Len(nested_results) > 0 =>
        /\ (res_payload # "unset" => (res_payload = "true" <=> Common # {}))
        /\ (res_index # "unset" => (res_index = "true" <=> Common # {}))
        /\ (nested_results = <<<<0, 1>>, <<0>>>> =>
                res_payload \in {"unset", "true"} /\ res_index \in {"unset", "true"})
        /\ (nested_results = <<<<0, 1>>, <<2>>>> =>
                res_payload \in {"unset", "false"} /\ res_index \in {"unset", "false"})

C2_Witness ==
    /\ nested_results = <<<<0, 1>>, <<0>>>>
    /\ res_payload = "true"
    /\ res_index = "true"

(***************************************************************************)
(* Payload values (serde_json::Value).  Every value is a record of the     *)
(* same shape so that values of different JSON types can be compared.      *)
(* Floats are counted in halves: the f64 x is the integer 2x.              *)
(***************************************************************************)
Val(t, n, m, s, a) == [t |-> t, n |-> n, m |-> m, s |-> s, a |-> a]

Null == Val("null", 0, 0, <<>>, <<>>)
IntV(i) == Val("int", i, 0, <<>>, <<>>)          \* Value::Number holding an i64
FloatV(h) == Val("float", h, 0, <<>>, <<>>)      \* Value::Number holding the f64 h/2
Kw(s) == Val("kw", 0, 0, s, <<>>)               \* Value::String, as its characters
Geo(lon, lat) == Val("geo", lon, lat, <<>>, <<>>) \* {"lon": .., "lat": ..}
Arr(a) == Val("arr", 0, 0, <<>>, a)             \* Value::Array
Absent == Val("absent", 0, 0, <<>>, <<>>)       \* the key is missing

is_null(v) == v.t = "null"

\* i64 as f64
FloatOfInt(i) == 2 * i

\* Number::as_i64 / Number::as_f64 of a JSON number
HasI64(v) == v.t = "int"
HasF64(v) == v.t \in {"int", "float"}
AsF64(v) == IF v.t = "int" THEN FloatOfInt(v.n) ELSE v.n

\* str::contains: needle occurs as a contiguous run of hay
Contains(hay, needle) ==
    \E off \in 0..(Len(hay) - Len(needle)) :
        \A j \in 1..Len(needle) : hay[off + j] = needle[j]

(***************************************************************************)
(* Sub-predicates of a FieldCondition (types.rs)                           *)
(***************************************************************************)
None == [some |-> FALSE, v |-> 0]
Some(x) == [some |-> TRUE, v |-> x]

NoMatchCond == [some |-> FALSE, kind |-> "none", variant |-> "none", vals |-> {}]
MatchValue(variant, v) == [some |-> TRUE, kind |-> "Value", variant |-> variant, vals |-> {v}]
MatchAny(variant, vs) == [some |-> TRUE, kind |-> "Any", variant |-> variant, vals |-> vs]
MatchText(text) == [some |-> TRUE, kind |-> "Text", variant |-> "Text", vals |-> {Kw(text)}]

NoRange == [some |-> FALSE, lt |-> None, gt |-> None, gte |-> None, lte |-> None]
Range(lt, gt, gte, lte) == [some |-> TRUE, lt |-> lt, gt |-> gt, gte |-> gte, lte |-> lte]

NoGeoRadius == [some |-> FALSE, lon |-> 0, lat |-> 0, radius |-> 0]
GeoRadius(lon, lat, radius) == [some |-> TRUE, lon |-> lon, lat |-> lat, radius |-> radius]

NoGeoBoundingBox == [some |-> FALSE, tl_lon |-> 0, tl_lat |-> 0, br_lon |-> 0, br_lat |-> 0]
GeoBoundingBox(tl_lon, tl_lat, br_lon, br_lat) ==
    [some |-> TRUE, tl_lon |-> tl_lon, tl_lat |-> tl_lat, br_lon |-> br_lon, br_lat |-> br_lat]

\* Range::check_range: every bound that is set must pass
check_range(range, number) ==
    /\ (range.lt.some => number < range.lt.v)
    /\ (range.gt.some => number > range.gt.v)
    /\ (range.lte.some => number <= range.lte.v)
    /\ (range.gte.some => number >= range.gte.v)

\* ValuesCount::check_count: null counts 0, an array its length, else 1
check_count(values_count, v) ==
    check_range(values_count,
                IF v.t = "null" THEN 0 ELSE IF v.t = "arr" THEN Len(v.a) ELSE 1)

\* GeoRadius::check_point, planar distance
geo_radius_check_point(geo_radius, lon, lat) ==
    (lon - geo_radius.lon) * (lon - geo_radius.lon)
        + (lat - geo_radius.lat) * (lat - geo_radius.lat)
            <= geo_radius.radius * geo_radius.radius

\* GeoBoundingBox::check_point
geo_bounding_box_check_point(box, lon, lat) ==
    /\ box.tl_lon < lon /\ lon < box.br_lon
    /\ box.br_lat < lat /\ lat < box.tl_lat

(***************************************************************************)
(* Per-element predicate evaluators (ValueChecker) on one payload value    *)
(***************************************************************************)
match_check_match(m, v) ==
    CASE m.kind = "Value" /\ m.variant = "Keyword" -> v.t = "kw" /\ v \in m.vals
      [] m.kind = "Value" /\ m.variant = "Integer" -> HasI64(v) /\ v \in m.vals
      [] m.kind = "Any" /\ m.variant = "Keywords" -> v.t = "kw" /\ v \in m.vals
      [] m.kind = "Any" /\ m.variant = "Integers" -> HasI64(v) /\ v \in m.vals
      [] m.kind = "Text" -> v.t = "kw" /\ \E q \in m.vals : Contains(v.s, q.s)
      [] OTHER -> FALSE

range_check_match(range, v) == HasF64(v) /\ check_range(range, AsF64(v))

geo_radius_check_match(geo_radius, v) ==
    v.t = "geo" /\ geo_radius_check_point(geo_radius, v.n, v.m)

geo_bounding_box_check_match(box, v) ==
    v.t = "geo" /\ geo_bounding_box_check_point(box, v.n, v.m)

\* ValueChecker::check: an array is checked element-wise, any element suffices
match_check(m, v) ==
    IF v.t = "arr" THEN \E i \in 1..Len(v.a) : match_check_match(m, v.a[i])
    ELSE match_check_match(m, v)

range_check(range, v) ==
    IF v.t = "arr" THEN \E i \in 1..Len(v.a) : range_check_match(range, v.a[i])
    ELSE range_check_match(range, v)

geo_radius_check(geo_radius, v) ==
    IF v.t = "arr" THEN \E i \in 1..Len(v.a) : geo_radius_check_match(geo_radius, v.a[i])
    ELSE geo_radius_check_match(geo_radius, v)

geo_bounding_box_check(box, v) ==
    IF v.t = "arr" THEN \E i \in 1..Len(v.a) : geo_bounding_box_check_match(box, v.a[i])
    ELSE geo_bounding_box_check_match(box, v)

\* ValuesCount overrides check: the array itself is counted
values_count_check(values_count, v) == check_count(values_count, v)

(***************************************************************************)
(* Payload path resolution (Payload::get_value, MultiValue)                *)
(***************************************************************************)
Single(opt) == [tag |-> "Single", some |-> opt.some, vals |-> IF opt.some THEN <<opt.v>> ELSE <<>>]
Multiple(vals) == [tag |-> "Multiple", some |-> TRUE, vals |-> vals]

\* payload.shape = "object": the nested path is one object, elems[1] is the
\* value of the key in it (or Absent);  payload.shape = "array": the nested
\* path crosses an array, elems[i] is the value of the key in its i-th element
get_value(p) ==
    IF p.shape = "object"
    THEN IF p.elems[1] = Absent THEN Single([some |-> FALSE, v |-> Null])
         ELSE Single([some |-> TRUE, v |-> p.elems[1]])
    ELSE Multiple([i \in 1..Len(p.elems) |->
                      IF p.elems[i] = Absent THEN Null ELSE p.elems[i]])

\* MultiValue::values
values(field_values) == field_values.vals

(***************************************************************************)
(* Conditions and filters (types.rs)                                       *)
(***************************************************************************)
FieldCondition(key, m, range, geo_radius, geo_bounding_box, values_count) ==
    [key |-> key, match |-> m, range |-> range, geo_radius |-> geo_radius,
     geo_bounding_box |-> geo_bounding_box, values_count |-> values_count]

NoFC == FieldCondition("k", NoMatchCond, NoRange, NoGeoRadius, NoGeoBoundingBox, NoRange)

CondField(fc) == [kind |-> "Field", fc |-> fc]
CondIsEmpty == [kind |-> "IsEmpty", fc |-> NoFC]
CondIsNull == [kind |-> "IsNull", fc |-> NoFC]
CondHasId == [kind |-> "HasId", fc |-> NoFC]
CondNested == [kind |-> "Nested", fc |-> NoFC]
CondFilter == [kind |-> "Filter", fc |-> NoFC]

NoneConds == [some |-> FALSE, conds |-> <<>>]
SomeConds(cs) == [some |-> TRUE, conds |-> cs]

(***************************************************************************)
(* Fallback document checkers (nested_query_checker.rs)                    *)
(***************************************************************************)
\* a plausible slip: the pushed index is one too large
RECURSIVE PushMatchingOffByOne(_, _, _)
PushMatchingOffByOne(flags, index, matching_indices) ==
    IF index >= Len(flags) THEN matching_indices
    ELSE PushMatchingOffByOne(flags, index + 1,
                              IF flags[index + 1] THEN Append(matching_indices, index + 1)
                              ELSE matching_indices)

\* `for (index, p) in ...enumerate() { if flags[index] { v.push(index) } }`
RECURSIVE PushMatching(_, _, _)
PushMatching(flags, index, matching_indices) ==
    IF index >= Len(flags) THEN matching_indices
    ELSE PushMatching(flags, index + 1,
                      IF flags[index + 1] THEN Append(matching_indices, index)
                      ELSE matching_indices)

\* a plausible slip: an array holding nothing but nulls counts as empty
IsEmptyElementAllNull(p) ==
    p.t = "null" \/ (p.t = "arr" /\ \A i \in 1..Len(p.a) : is_null(p.a[i]))

\* IsEmpty arm: Value::Null, or Value::Array(vec) if vec.is_empty()
IsEmptyElement(p) == p.t = "null" \/ (p.t = "arr" /\ p.a = <<>>)

check_nested_is_empty_condition(pl) ==
    LET field_values == get_value(pl)
        vs == values(field_values)
    IN PushMatching([i \in 1..Len(vs) |-> IsEmptyElement(vs[i])], 0, <<>>)

\* a plausible slip: the Value::Array arm is missing
IsNullElementOnlyNull(p) == p.t = "null"

\* IsNull, Multiple arm: Value::Null, or an array with any null element
IsNullElement(p) ==
    \/ p.t = "null"
    \/ (p.t = "arr" /\ \E i \in 1..Len(p.a) : is_null(p.a[i]))

\* a plausible slip: an absent field is not reported
check_nested_is_null_condition_absent_ignored(pl) ==
    LET field_values == get_value(pl)
    IN IF field_values.tag = "Single"
       THEN IF ~field_values.some THEN <<>>
            ELSE IF is_null(field_values.vals[1]) THEN <<0>> ELSE <<>>
       ELSE PushMatching([i \in 1..Len(field_values.vals) |->
                             IsNullElement(field_values.vals[i])], 0, <<>>)

check_nested_is_null_condition(pl) ==
    LET field_values == get_value(pl)
    IN IF field_values.tag = "Single"
       THEN IF ~field_values.some THEN <<0>>
            ELSE IF is_null(field_values.vals[1]) THEN <<0>> ELSE <<>>
       ELSE PushMatching([i \in 1..Len(field_values.vals) |->
                             IsNullElement(field_values.vals[i])], 0, <<>>)

\* a plausible slip: the last sub-predicate, values_count, is forgotten
ElementMatchesNoValuesCount(field_condition, p) ==
    \/ (field_condition.match.some /\ match_check(field_condition.match, p))
    \/ (field_condition.range.some /\ range_check(field_condition.range, p))
    \/ (field_condition.geo_radius.some
            /\ geo_radius_check(field_condition.geo_radius, p))
    \/ (field_condition.geo_bounding_box.some
            /\ geo_bounding_box_check(field_condition.geo_bounding_box, p))

\* the body of the loop: res = res || sub.map_or(false, |c| c.check(p)), five times
ElementMatches(field_condition, p) ==
    LET res0 == FALSE
        res1 == res0 \/ (field_condition.match.some
                            /\ match_check(field_condition.match, p))
        res2 == res1 \/ (field_condition.range.some
                            /\ range_check(field_condition.range, p))
        res3 == res2 \/ (field_condition.geo_radius.some
                            /\ geo_radius_check(field_condition.geo_radius, p))
        res4 == res3 \/ (field_condition.geo_bounding_box.some
                            /\ geo_bounding_box_check(field_condition.geo_bounding_box, p))
        res5 == res4 \/ (field_condition.values_count.some
                            /\ values_count_check(field_condition.values_count, p))
    IN res5

nested_check_field_condition(field_condition, pl) ==
    LET field_values == get_value(pl)
        vs == values(field_values)
    IN PushMatching([i \in 1..Len(vs) |-> ElementMatches(field_condition, vs[i])], 0, <<>>)

\* the nested_checker closure of check_nested_filter
Unreachable(c) == c.kind \in {"HasId", "Nested", "Filter"}

nested_checker(c, pl) ==
    CASE c.kind = "Field" -> nested_check_field_condition(c.fc, pl)
      [] c.kind = "IsEmpty" -> check_nested_is_empty_condition(pl)
      [] c.kind = "IsNull" -> check_nested_is_null_condition(pl)
      [] OTHER -> <<>>

\* a plausible slip: `should` is read as further `must` conditions
ConsumedWithShould(filter) ==
    [some |-> filter.must.some \/ filter.should.some,
     conds |-> filter.must.conds \o filter.should.conds]

\* nested_filter_checker hands only `&nested_filter.must` to the merge
Consumed(filter) == filter.must

\* conditions.iter().flat_map(checker) calls the closure on the conditions in
\* order; the first unreachable!() aborts the call
RECURSIVE EvaluatedPrefix(_)
EvaluatedPrefix(conds) ==
    IF conds = <<>> THEN <<>>
    ELSE IF Unreachable(Head(conds)) THEN <<Head(conds)>>
    ELSE <<Head(conds)>> \o EvaluatedPrefix(Tail(conds))

nested_filter_evaluated(filter) ==
    IF Consumed(filter).some THEN Elems(EvaluatedPrefix(Consumed(filter).conds)) ELSE {}

\* "true" / "false", or "panic" when the closure hits unreachable!()
nested_filter_checker(filter, pl) ==
    LET must == Consumed(filter)
    IN IF must.some /\ \E i \in 1..Len(must.conds) : Unreachable(must.conds[i])
       THEN "panic"
       ELSE BoolStr(check_all_nested_conditions(
                [some |-> must.some,
                 lists |-> [i \in 1..Len(must.conds) |-> nested_checker(must.conds[i], pl)]]))

check_nested_filter(filter, pl) == nested_filter_checker(filter, pl)

(***************************************************************************)
(* SpecField: each fallback checker on one payload and one condition       *)
(***************************************************************************)
FieldValues ==
    {Null, IntV(1), IntV(2), FloatV(1), Kw(<<"a">>), Kw(<<"a", "b">>),
     Geo(0, 0), Geo(2, 0), Arr(<<>>), Arr(<<Null>>), Arr(<<Kw(<<"a">>), IntV(2)>>)}

PayloadsOver(V) ==
    {[shape |-> "object", elems |-> <<v>>] : v \in V \cup {Absent}}
        \cup {[shape |-> "array", elems |-> e] : e \in SeqsUpTo(V \cup {Absent}, MaxElems)}

MatchConds ==
    {NoMatchCond, MatchValue("Keyword", Kw(<<"a">>)), MatchValue("Integer", IntV(1)),
     MatchAny("Keywords", {Kw(<<"a">>), Kw(<<"b">>)}),
     MatchAny("Integers", {IntV(1), IntV(2)}), MatchText(<<"b">>)}

\* gt 1.0;  lt 2.0 and gte 0.5;  lte 1.0
RangeConds ==
    {NoRange, Range(None, Some(2), None, None), Range(Some(4), None, Some(1), None),
     Range(None, None, None, Some(2))}

GeoRadiusConds == {NoGeoRadius, GeoRadius(0, 0, 1)}
GeoBoundingBoxConds == {NoGeoBoundingBox, GeoBoundingBox(1, 1, 3, -1)}
ValuesCountConds == {NoRange, Range(None, None, Some(2), None)}

FieldConditions ==
    {FieldCondition("k", m, r, gr, gb, vc) :
        m \in MatchConds, r \in RangeConds, gr \in GeoRadiusConds,
        gb \in GeoBoundingBoxConds, vc \in ValuesCountConds}

InitField ==
    /\ pc = "start"
    /\ payload \in PayloadsOver(FieldValues)
    /\ condition \in {CondField(fc) : fc \in FieldConditions} \cup {CondIsEmpty, CondIsNull}
    /\ nested_filter = NoFilter
    /\ nested_results = <<>>
    /\ must_opt = "None"
    /\ field_indexes = NoIndexes
    /\ chosen = "unset"
    /\ matching = <<>>
    /\ index_result = NoMatch
    /\ res_payload = "unset"
    /\ res_index = "unset"
    /\ evaluated = {}
    /\ res_twin = "unset"
    /\ CallVarsUnused
    /\ MmapVarsUnused

CallNestedCheckFieldCondition ==
    /\ pc = "start"
    /\ condition.kind = "Field"
    /\ matching' = nested_check_field_condition(condition.fc, payload)
    /\ pc' = "called"
    /\ UNCHANGED <<nested_results, must_opt, payload, nested_filter, condition,
                   field_indexes, chosen, index_result, res_payload, res_index, evaluated,
                   res_twin, callVars, mmapVars>>

CallCheckNestedIsEmptyCondition ==
    /\ pc = "start"
    /\ condition.kind = "IsEmpty"
    /\ matching' = check_nested_is_empty_condition(payload)
    /\ pc' = "called"
    /\ UNCHANGED <<nested_results, must_opt, payload, nested_filter, condition,
                   field_indexes, chosen, index_result, res_payload, res_index, evaluated,
                   res_twin, callVars, mmapVars>>

CallCheckNestedIsNullCondition ==
    /\ pc = "start"
    /\ condition.kind = "IsNull"
    /\ matching' = check_nested_is_null_condition(payload)
    /\ pc' = "called"
    /\ UNCHANGED <<nested_results, must_opt, payload, nested_filter, condition,
                   field_indexes, chosen, index_result, res_payload, res_index, evaluated,
                   res_twin, callVars, mmapVars>>

\* check_nested_filter on Filter::new_must(condition), as the tests build it
CallCheckNestedFilterNewMust ==
    /\ res_payload = "unset"
    /\ nested_filter' = [must |-> SomeConds(<<condition>>),
                         should |-> NoneConds, must_not |-> NoneConds]
    /\ res_payload' = check_nested_filter(nested_filter', payload)
    /\ UNCHANGED <<pc, nested_results, must_opt, payload, condition, field_indexes,
                   chosen, matching, index_result, res_index, evaluated,
                   res_twin, callVars, mmapVars>>

NextField ==
    \/ CallNestedCheckFieldCondition
    \/ CallCheckNestedIsEmptyCondition
    \/ CallCheckNestedIsNullCondition
    \/ CallCheckNestedFilterNewMust

SpecField == InitField /\ [][NextField]_vars

Resolved == values(get_value(payload))

SubPredicates == {"match", "range", "geo_radius", "geo_bounding_box", "values_count"}

SubConfigured(fc, sp) ==
    CASE sp = "match" -> fc.match.some
      [] sp = "range" -> fc.range.some
      [] sp = "geo_radius" -> fc.geo_radius.some
      [] sp = "geo_bounding_box" -> fc.geo_bounding_box.some
      [] sp = "values_count" -> fc.values_count.some

SubTrue(fc, sp, v) ==
    CASE sp = "match" -> match_check(fc.match, v)
      [] sp = "range" -> range_check(fc.range, v)
      [] sp = "geo_radius" -> geo_radius_check(fc.geo_radius, v)
      [] sp = "geo_bounding_box" -> geo_bounding_box_check(fc.geo_bounding_box, v)
      [] sp = "values_count" -> values_count_check(fc.values_count, v)

\* C4: the fallback nested_check_field_condition reports position i iff at
\* least one configured sub-predicate is true on the element resolved at i;
\* with no sub-predicate configured it reports nothing.
C4_OrAcrossSubPredicates ==
    (pc = "called" /\ condition.kind = "Field") =>
        /\ \A i \in 0..MaxElems :
               (i \in Elems(matching)) <=>
                   /\ i < Len(Resolved)
                   /\ \E sp \in SubPredicates :
                          SubConfigured(condition.fc, sp)
                              /\ SubTrue(condition.fc, sp, Resolved[i + 1])
        /\ Elems(matching) \subseteq 0..MaxElems
        /\ ((\A sp \in SubPredicates : ~SubConfigured(condition.fc, sp)) => matching = <<>>)

\* range and values_count are both set and only values_count holds at position 1
C4_Witness ==
    /\ pc = "called"
    /\ condition.kind = "Field"
    /\ condition.fc.range.some /\ condition.fc.values_count.some
    /\ payload.shape = "array"
    /\ payload.elems = <<IntV(1), Arr(<<Kw(<<"a">>), IntV(2)>>)>>
    /\ condition.fc.range = Range(None, None, None, Some(2))
    /\ ~condition.fc.match.some
    /\ matching = <<0, 1>>

\* C5: on a Single resolution IsNull reports {0} for an absent field and for
\* a literal null, nothing for any other value; the nested filter made of
\* that one condition matches the absent field exactly as the null one.
C5_IsNullAbsence ==
    (condition.kind = "IsNull" /\ payload.shape = "object") =>
        LET nullish == payload.elems[1] \in {Absent, Null}
        IN /\ (pc = "called" => matching = IF nullish THEN <<0>> ELSE <<>>)
           /\ (res_payload # "unset" => res_payload = BoolStr(nullish))

C5_Witness ==
    /\ condition.kind = "IsNull"
    /\ payload = [shape |-> "object", elems |-> <<Absent>>]
    /\ pc = "called"
    /\ matching = <<0>>
    /\ res_payload = "true"

\* C6: IsEmpty reports position i iff the value resolved at i is null or an
\* empty array; a non-empty array never matches, even one of nulls only; a
\* Single resolution can only report position 0.
C6_IsEmptyElements ==
    (pc = "called" /\ condition.kind = "IsEmpty") =>
        /\ \A i \in 0..MaxElems :
               (i \in Elems(matching)) <=>
                   /\ i < Len(Resolved)
                   /\ (Resolved[i + 1] = Null \/ Resolved[i + 1] = Arr(<<>>))
        /\ Elems(matching) \subseteq 0..MaxElems
        /\ \A i \in 1..Len(payload.elems) :
               (payload.elems[i].t = "arr" /\ payload.elems[i].a # <<>>)
                   => (i - 1) \notin Elems(matching)
        /\ (payload.shape = "object" => Elems(matching) \subseteq {0})

\* position 0 holds [null], position 1 holds []
C6_Witness ==
    /\ pc = "called"
    /\ condition.kind = "IsEmpty"
    /\ payload = [shape |-> "array", elems |-> <<Arr(<<Null>>), Arr(<<>>)>>]
    /\ matching = <<1>>

(***************************************************************************)
(* Spec: check_nested_filter on a payload and a whole nested filter        *)
(***************************************************************************)
FilterValues == {Null, Kw(<<"a">>), Arr(<<>>)}

KeywordIsA ==
    CondField(FieldCondition("k", MatchValue("Keyword", Kw(<<"a">>)),
                             NoRange, NoGeoRadius, NoGeoBoundingBox, NoRange))

MustConditions == {CondIsEmpty, CondIsNull, KeywordIsA, CondHasId}

ShouldGroups ==
    {NoneConds, SomeConds(<<CondNested>>), SomeConds(<<CondIsNull>>), SomeConds(<<KeywordIsA>>)}

MustNotGroups == {NoneConds, SomeConds(<<CondFilter>>), SomeConds(<<CondIsEmpty>>)}

MustGroups == {NoneConds} \cup {SomeConds(cs) : cs \in SeqsUpTo(MustConditions, MaxMust)}

Init ==
    /\ pc = "start"
    /\ payload \in PayloadsOver(FilterValues)
    /\ nested_filter \in [must : MustGroups, should : ShouldGroups, must_not : MustNotGroups]
    /\ condition = NoCondition
    /\ nested_results = <<>>
    /\ must_opt = "None"
    /\ field_indexes = NoIndexes
    /\ chosen = "unset"
    /\ matching = <<>>
    /\ index_result = NoMatch
    /\ res_payload = "unset"
    /\ res_index = "unset"
    /\ evaluated = {}
    /\ res_twin = "unset"
    /\ CallVarsUnused
    /\ MmapVarsUnused

\* check_nested_filter(nested_path, nested_filter, get_payload)
CallCheckNestedFilter ==
    /\ res_payload = "unset"
    /\ res_payload' = check_nested_filter(nested_filter, payload)
    /\ evaluated' = nested_filter_evaluated(nested_filter)
    /\ UNCHANGED <<pc, nested_results, must_opt, payload, nested_filter, condition,
                   field_indexes, chosen, matching, index_result, res_index, res_twin,
                   callVars, mmapVars>>

\* the same call on any filter that has the same `must` list and other
\* `should` and `must_not` groups
CallCheckNestedFilterTwin ==
    /\ res_twin = "unset"
    /\ \E s \in ShouldGroups, mn \in MustNotGroups :
           res_twin' = check_nested_filter(
                           [must |-> nested_filter.must, should |-> s, must_not |-> mn],
                           payload)
    /\ UNCHANGED <<pc, nested_results, must_opt, payload, nested_filter, condition,
                   field_indexes, chosen, matching, index_result, res_payload,
                   res_index, evaluated,
                   callVars, mmapVars>>

Next == CallCheckNestedFilter \/ CallCheckNestedFilterTwin

Spec == Init /\ [][Next]_vars

GroupConds(filter) == Elems(filter.must.conds) \cup Elems(filter.should.conds)
                          \cup Elems(filter.must_not.conds)

\* C7: a nested filter that holds a HasId, Nested or Filter condition, in
\* whichever group, never gets a boolean from a per-point evaluation.
C7_StructuralViolationFailsFast ==
    (\E c \in GroupConds(nested_filter) : Unreachable(c)) =>
        res_payload \in {"unset", "panic"}

\* C8: two nested filters with the same `must` list give the same result on
\* the same payload whatever their `should` and `must_not` groups hold, and
\* only conditions of `must` are evaluated.
C8_OnlyMustConsumed ==
    /\ ((res_payload # "unset" /\ res_twin # "unset") => res_payload = res_twin)
    /\ evaluated \subseteq Elems(nested_filter.must.conds)

\* the `should` group holds a condition that is true on the payload while the
\* `must` condition is not
C8_Witness ==
    /\ nested_filter.must = SomeConds(<<CondIsEmpty>>)
    /\ nested_filter.should = SomeConds(<<CondIsNull>>)
    /\ payload = [shape |-> "object", elems |-> <<Absent>>]
    /\ res_payload = "false"
    /\ res_twin = "false"
    /\ evaluated = {CondIsEmpty}

(***************************************************************************)
(* Secondary field indexes (FieldIndex), built over the point's payload    *)
(***************************************************************************)
IndexKinds ==
    {"KeywordIndex", "IntMapIndex", "IntIndex", "FloatIndex", "GeoIndex", "FullTextIndex"}

\* the JSON type of the values an index kind stores
IndexedType(index) ==
    CASE index = "KeywordIndex" -> "kw"
      [] index = "IntMapIndex" -> "int"
      [] index = "IntIndex" -> "int"
      [] index = "FloatIndex" -> "float"
      [] index = "GeoIndex" -> "geo"
      [] index = "FullTextIndex" -> "kw"

\* index.get_values(point_id): the point's values of the index's type in
\* element order, None when the point has no indexed value
get_values(index, pl) ==
    LET vs == values(get_value(pl))
    IN IF vs # <<>> /\ \A i \in 1..Len(vs) : vs[i].t = IndexedType(index)
       THEN [some |-> TRUE, v |-> vs]
       ELSE [some |-> FALSE, v |-> <<>>]

\* full_text_index.get_doc(point_id)
get_doc(index, pl) == get_values(index, pl)

\* full_text_index.parse_query(&text), parsed_query.check_match(doc)
parse_query(text_values) == CHOOSE q \in text_values : TRUE
check_match(parsed_query, doc) ==
    \E i \in 1..Len(doc) : Contains(doc[i].s, parsed_query.s)

(***************************************************************************)
(* Index-accelerated checkers (nested_filter.rs)                           *)
(***************************************************************************)
\* itertools positions(): the 0-based indexes of the elements that pass
positions(flags) == PushMatching(flags, 0, <<>>)

\* whether get_nested_match_checkers returns Some(checker)
get_nested_match_checkers(index, cond_match) ==
    CASE cond_match.kind = "Value" ->
            \/ (cond_match.variant = "Keyword" /\ index = "KeywordIndex")
            \/ (cond_match.variant = "Integer" /\ index = "IntMapIndex")
      [] cond_match.kind = "Text" -> index = "FullTextIndex"
      [] cond_match.kind = "Any" ->
            \/ (cond_match.variant = "Keywords" /\ index = "KeywordIndex")
            \/ (cond_match.variant = "Integers" /\ index = "IntMapIndex")
      [] OTHER -> FALSE

\* a plausible slip: a matching document is reported as position 0
match_checker_position_zero(index, cond_match, pl) ==
    IF cond_match.kind = "Text"
    THEN LET parsed_query == parse_query(cond_match.vals)
             doc == get_doc(index, pl)
         IN IF ~doc.some THEN NoMatch
            ELSE IF check_match(parsed_query, doc.v) THEN from_indexes(<<0>>) ELSE NoMatch
    ELSE LET vs == get_values(index, pl)
         IN IF ~vs.some THEN NoMatch
            ELSE from_indexes(positions([i \in 1..Len(vs.v) |-> vs.v[i] \in cond_match.vals]))

\* the closure get_nested_match_checkers returns, called on the point
match_checker(index, cond_match, pl) ==
    IF cond_match.kind = "Text"
    THEN LET parsed_query == parse_query(cond_match.vals)
             doc == get_doc(index, pl)
         IN IF ~doc.some THEN NoMatch
            ELSE LET res == check_match(parsed_query, doc.v)   \* `_res`, dropped
                 IN NoMatch
    ELSE LET vs == get_values(index, pl)
         IN IF ~vs.some THEN NoMatch
            ELSE from_indexes(positions([i \in 1..Len(vs.v) |-> vs.v[i] \in cond_match.vals]))

\* whether get_nested_range_checkers returns Some(checker)
get_nested_range_checkers(index, range) == index \in {"IntIndex", "FloatIndex"}

\* a plausible slip: the integer is compared without `as FloatPayloadType`
range_checker_no_cast(index, range, pl) ==
    LET vs == get_values(index, pl)
    IN IF ~vs.some THEN NoMatch
       ELSE from_indexes(positions(
                [i \in 1..Len(vs.v) |-> check_range(range, vs.v[i].n)]))

range_checker(index, range, pl) ==
    LET vs == get_values(index, pl)
    IN IF ~vs.some THEN NoMatch
       ELSE IF index = "IntIndex"
       THEN from_indexes(positions(
                [i \in 1..Len(vs.v) |-> check_range(range, FloatOfInt(vs.v[i].n))]))
       ELSE from_indexes(positions(
                [i \in 1..Len(vs.v) |-> check_range(range, vs.v[i].n)]))

get_nested_geo_radius_checkers(index, geo_radius) == index = "GeoIndex"

geo_radius_checker(index, geo_radius, pl) ==
    LET vs == get_values(index, pl)
    IN IF ~vs.some THEN NoMatch
       ELSE from_indexes(positions(
                [i \in 1..Len(vs.v) |->
                    geo_radius_check_point(geo_radius, vs.v[i].n, vs.v[i].m)]))

get_nested_geo_bounding_box_checkers(index, geo_bounding_box) == index = "GeoIndex"

geo_bounding_box_checker(index, geo_bounding_box, pl) ==
    LET vs == get_values(index, pl)
    IN IF ~vs.some THEN NoMatch
       ELSE from_indexes(positions(
                [i \in 1..Len(vs.v) |->
                    geo_bounding_box_check_point(geo_bounding_box, vs.v[i].n, vs.v[i].m)]))

(***************************************************************************)
(* Nested checker dispatcher (nested_filter.rs)                            *)
(***************************************************************************)
\* a plausible slip: geo_bounding_box is tried before geo_radius
nested_field_condition_index_box_first(index, field_condition) ==
    IF field_condition.match.some
           /\ get_nested_match_checkers(index, field_condition.match)
    THEN "match"
    ELSE IF field_condition.range.some
           /\ get_nested_range_checkers(index, field_condition.range)
    THEN "range"
    ELSE IF field_condition.geo_bounding_box.some
           /\ get_nested_geo_bounding_box_checkers(index, field_condition.geo_bounding_box)
    THEN "geo_bounding_box"
    ELSE IF field_condition.geo_radius.some
           /\ get_nested_geo_radius_checkers(index, field_condition.geo_radius)
    THEN "geo_radius"
    ELSE "None"

\* the sub-predicate whose checker nested_field_condition_index returns for
\* the index, "None" when it returns None
nested_field_condition_index(index, field_condition) ==
    IF field_condition.match.some
           /\ get_nested_match_checkers(index, field_condition.match)
    THEN "match"
    ELSE IF field_condition.range.some
           /\ get_nested_range_checkers(index, field_condition.range)
    THEN "range"
    ELSE IF field_condition.geo_radius.some
           /\ get_nested_geo_radius_checkers(index, field_condition.geo_radius)
    THEN "geo_radius"
    ELSE IF field_condition.geo_bounding_box.some
           /\ get_nested_geo_bounding_box_checkers(index, field_condition.geo_bounding_box)
    THEN "geo_bounding_box"
    ELSE "None"

\* format!("{}.{}", nested_path, field_condition.key)
FullPath(nested_path, key) == <<nested_path, ".", key>>

NestedPath == "country.cities[]"

Checker(via, pos, index, sub) == [via |-> via, pos |-> pos, index |-> index, sub |-> sub]
NoChecker == Checker("unset", 0, "none", "None")

\* indexes.iter().filter_map(|index| nested_field_condition_index(..)).next():
\* the position in the registry of the first index that yields a checker, 0 if none
FirstAccepting(indexes, field_condition) ==
    LET accepting == {i \in 1..Len(indexes) :
                         nested_field_condition_index(indexes[i], field_condition) # "None"}
    IN IF accepting = {} THEN 0
       ELSE CHOOSE i \in accepting : \A j \in accepting : i <= j

\* a plausible slip: the registry entry is used whatever path it is filed under
nested_condition_converter_any_path(cond, indexes_map, nested_path) ==
    CASE cond.kind = "Field" ->
            LET indexes == indexes_map.indexes
                first == FirstAccepting(indexes, cond.fc)
            IN IF first # 0
               THEN Checker("index", first, indexes[first],
                            nested_field_condition_index(indexes[first], cond.fc))
               ELSE Checker("fallback", 0, "none", "None")
      [] cond.kind = "IsEmpty" -> Checker("is_empty", 0, "none", "None")
      [] cond.kind = "IsNull" -> Checker("is_null", 0, "none", "None")
      [] OTHER -> Checker("panic", 0, "none", "None")

nested_condition_converter(cond, indexes_map, nested_path) ==
    CASE cond.kind = "Field" ->
            LET full_path == FullPath(nested_path, cond.fc.key)
                indexes == IF indexes_map.path = full_path THEN indexes_map.indexes ELSE <<>>
                first == FirstAccepting(indexes, cond.fc)
            IN IF first # 0
               THEN Checker("index", first, indexes[first],
                            nested_field_condition_index(indexes[first], cond.fc))
               ELSE Checker("fallback", 0, "none", "None")
      [] cond.kind = "IsEmpty" -> Checker("is_empty", 0, "none", "None")
      [] cond.kind = "IsNull" -> Checker("is_null", 0, "none", "None")
      [] OTHER -> Checker("panic", 0, "none", "None")

\* Vec<usize> of a payload checker handed to from_matches as Vec<NestedPath>
Paths(ms) == [i \in 1..Len(ms) |-> to_string(ms[i])]

\* the NestedConditionCheckerFn built by the converter, called on the point
call_nested_checker(checker, cond, pl) ==
    CASE checker.via = "index" /\ checker.sub = "match" ->
            match_checker(checker.index, cond.fc.match, pl)
      [] checker.via = "index" /\ checker.sub = "range" ->
            range_checker(checker.index, cond.fc.range, pl)
      [] checker.via = "index" /\ checker.sub = "geo_radius" ->
            geo_radius_checker(checker.index, cond.fc.geo_radius, pl)
      [] checker.via = "index" /\ checker.sub = "geo_bounding_box" ->
            geo_bounding_box_checker(checker.index, cond.fc.geo_bounding_box, pl)
      [] checker.via = "fallback" ->
            from_matches(Paths(nested_check_field_condition(cond.fc, pl)))
      [] checker.via = "is_empty" ->
            from_matches(Paths(check_nested_is_empty_condition(pl)))
      [] checker.via = "is_null" ->
            from_matches(Paths(check_nested_is_null_condition(pl)))

(***************************************************************************)
(* SpecIndex: the dispatcher on one condition, one registry and one point  *)
(***************************************************************************)
TypedValues ==
    {{IntV(1), IntV(2)}, {FloatV(1), FloatV(3)}, {Kw(<<"a">>), Kw(<<"a", "b">>)},
     {Geo(0, 0), Geo(2, 0)}}

\* payloads whose elements all have one scalar type, as an index stores them
IndexPayloads ==
    {[shape |-> "object", elems |-> <<v>>] : v \in (UNION TypedValues) \cup {Absent}}
        \cup {[shape |-> "array", elems |-> e] :
                 e \in UNION {SeqsUpTo(V, MaxElems) : V \in TypedValues}}

\* the indexes built for one path hold each kind at most once
Registries ==
    {[path |-> FullPath(NestedPath, "k"), indexes |-> ix] :
        ix \in {kinds \in SeqsUpTo(IndexKinds, MaxIndexes) :
                   \A i, j \in 1..Len(kinds) : i < j => kinds[i] # kinds[j]}}
        \cup {[path |-> FullPath(NestedPath, "z"), indexes |-> <<"KeywordIndex", "IntIndex">>]}

InitIndex ==
    /\ pc = "start"
    /\ payload \in IndexPayloads
    /\ condition \in {CondField(fc) : fc \in FieldConditions}
                        \cup {CondIsEmpty, CondIsNull, CondHasId, CondNested, CondFilter}
    /\ field_indexes \in Registries
    /\ nested_filter = NoFilter
    /\ nested_results = <<>>
    /\ must_opt = "None"
    /\ chosen = NoChecker
    /\ matching = <<>>
    /\ index_result = NoMatch
    /\ res_payload = "unset"
    /\ res_index = "unset"
    /\ evaluated = {}
    /\ res_twin = "unset"
    /\ CallVarsUnused
    /\ MmapVarsUnused

\* nested_condition_converter(condition, field_indexes, payload_provider, _, nested_path)
ConvertCondition ==
    /\ pc = "start"
    /\ chosen' = nested_condition_converter(condition, field_indexes, NestedPath)
    /\ pc' = IF chosen'.via = "panic" THEN "panic" ELSE "built"
    /\ UNCHANGED <<nested_results, must_opt, payload, nested_filter, condition,
                   field_indexes, matching, index_result, res_payload, res_index,
                   evaluated, res_twin, callVars, mmapVars>>

\* checker(point_id) on the checker the converter returned
CallNestedChecker ==
    /\ pc = "built"
    /\ index_result' = call_nested_checker(chosen, condition, payload)
    /\ pc' = "called"
    /\ UNCHANGED <<nested_results, must_opt, payload, nested_filter, condition,
                   field_indexes, chosen, matching, res_payload, res_index,
                   evaluated, res_twin, callVars, mmapVars>>

\* the document checker on the same point, for comparison
CallDocumentChecker ==
    /\ pc = "called"
    /\ condition.kind = "Field"
    /\ matching' = nested_check_field_condition(condition.fc, payload)
    /\ pc' = "compared"
    /\ UNCHANGED <<nested_results, must_opt, payload, nested_filter, condition,
                   field_indexes, chosen, index_result, res_payload, res_index,
                   evaluated, res_twin, callVars, mmapVars>>

NextIndex == ConvertCondition \/ CallNestedChecker \/ CallDocumentChecker

SpecIndex == InitIndex /\ [][NextIndex]_vars

\* the index stores for the point exactly the resolved payload elements
IndexHoldsPayload(index, pl) ==
    LET vs == get_values(index, pl)
    IN IF vs.some THEN vs.v = values(get_value(pl)) ELSE values(get_value(pl)) = <<>>

\* C3: whenever the converter picks an index whose values are the resolved
\* payload elements, the built checker returns the positions the fallback
\* nested_check_field_condition returns.
C3_IndexFallbackEquivalence ==
    (pc = "compared" /\ chosen.via = "index" /\ IndexHoldsPayload(chosen.index, payload)) =>
        index_result.paths = Paths(matching)

\* the index of that kind yields a checker for that configured sub-predicate
Accepts(index, sp, fc) ==
    CASE sp = "match" -> fc.match.some /\ get_nested_match_checkers(index, fc.match)
      [] sp = "range" -> fc.range.some /\ get_nested_range_checkers(index, fc.range)
      [] sp = "geo_radius" ->
            fc.geo_radius.some /\ get_nested_geo_radius_checkers(index, fc.geo_radius)
      [] sp = "geo_bounding_box" ->
            fc.geo_bounding_box.some
                /\ get_nested_geo_bounding_box_checkers(index, fc.geo_bounding_box)
      [] OTHER -> FALSE

\* C9: an index-accelerated checker is used only if the chosen index answers
\* every configured sub-predicate; otherwise the fallback checker is built.
C9_NoPartialIndexAcceleration ==
    chosen.via = "index" =>
        \A sp \in SubPredicates :
            SubConfigured(condition.fc, sp) => Accepts(chosen.index, sp, condition.fc)

Rank(sp) ==
    CASE sp = "match" -> 1 [] sp = "range" -> 2 [] sp = "geo_radius" -> 3
      [] sp = "geo_bounding_box" -> 4 [] OTHER -> 5

NoUsableIndex ==
    \/ field_indexes.path # FullPath(NestedPath, condition.fc.key)
    \/ \A j \in 1..Len(field_indexes.indexes) : \A sp \in SubPredicates :
           ~Accepts(field_indexes.indexes[j], sp, condition.fc)

\* C11: with no index registered under the full path, or only indexes that
\* accept none of the configured sub-predicates, the converter still returns
\* a checker, without panic, and the checker returns what the fallback
\* document checker returns on the point's payload.
C11_MissingIndexFallsBack ==
    (condition.kind = "Field" /\ NoUsableIndex) =>
        /\ pc # "panic"
        /\ (pc # "start" => chosen.via = "fallback")
        /\ (pc = "compared" => index_result = from_matches(Paths(matching)))

\* a range against a keyword index
C11_Witness ==
    /\ pc = "compared"
    /\ field_indexes = [path |-> FullPath(NestedPath, "k"), indexes |-> <<"KeywordIndex">>]
    /\ condition.fc.range.some /\ ~condition.fc.match.some
    /\ ~condition.fc.geo_radius.some /\ ~condition.fc.geo_bounding_box.some
    /\ chosen.via = "fallback"
    /\ index_result.tag = "Matches"

\* the stored value as the f64 the range is compared with
StoredAsFloat(index, v) == IF index = "IntIndex" THEN v.n + v.n ELSE v.n

\* the predicate of the selected sub-predicate on one stored value
Satisfies(index, sub, fc, v) ==
    CASE sub = "match" -> \E t \in fc.match.vals : v = t
      [] sub = "range" ->
            /\ (fc.range.gt.some => StoredAsFloat(index, v) > fc.range.gt.v)
            /\ (fc.range.gte.some => StoredAsFloat(index, v) >= fc.range.gte.v)
            /\ (fc.range.lt.some => StoredAsFloat(index, v) < fc.range.lt.v)
            /\ (fc.range.lte.some => StoredAsFloat(index, v) <= fc.range.lte.v)
      [] sub = "geo_radius" -> geo_radius_check_point(fc.geo_radius, v.n, v.m)
      [] sub = "geo_bounding_box" ->
            geo_bounding_box_check_point(fc.geo_bounding_box, v.n, v.m)

\* C15: an index-accelerated checker (match-value, match-any, range, geo)
\* returns NoMatch when get_values is None, otherwise exactly the 0-based
\* positions of the stored values that satisfy the predicate, and NoMatch
\* when there is none.
C15_IndexCheckersReference ==
    (/\ pc \in {"called", "compared"}
     /\ chosen.via = "index"
     /\ ~(chosen.sub = "match" /\ condition.fc.match.kind = "Text")) =>
        LET vs == get_values(chosen.index, payload)
            S == {i \in 0..(Len(vs.v) - 1) :
                     Satisfies(chosen.index, chosen.sub, condition.fc, vs.v[i + 1])}
        IN /\ (~vs.some => index_result = NoMatch)
           /\ (vs.some /\ S = {} => index_result = NoMatch)
           /\ (vs.some /\ S # {} => index_result = Matches(Paths(SortedSeq(S))))

\* integers 1 and 2 against gt 1.0: only position 1
C15_Witness ==
    /\ pc = "called"
    /\ chosen.via = "index" /\ chosen.index = "IntIndex" /\ chosen.sub = "range"
    /\ condition.fc.range = Range(None, Some(2), None, None)
    /\ payload = [shape |-> "array", elems |-> <<IntV(1), IntV(2)>>]
    /\ index_result = Matches(<<<<"1">>>>)

(***************************************************************************)
(* Further properties of the fallback checkers (SpecField)                 *)
(***************************************************************************)
\* C14: on a Multiple resolution IsNull reports position i iff the value at
\* i is null or an array with at least one null; scalars, objects, empty
\* arrays and arrays without null never match.
C14_IsNullMultiple ==
    (pc = "called" /\ condition.kind = "IsNull" /\ payload.shape = "array") =>
        /\ \A i \in 0..MaxElems :
               (i \in Elems(matching)) <=>
                   /\ i < Len(Resolved)
                   /\ \/ Resolved[i + 1] = Null
                      \/ /\ Resolved[i + 1].t = "arr"
                         /\ \E j \in 1..Len(Resolved[i + 1].a) : Resolved[i + 1].a[j] = Null
        /\ Elems(matching) \subseteq 0..MaxElems
        /\ \A i \in 1..Len(payload.elems) :
               \/ payload.elems[i].t \in {"int", "float", "kw", "geo"}
               \/ payload.elems[i] = Arr(<<>>)
               \/ payload.elems[i] = Arr(<<Kw(<<"a">>), IntV(2)>>)
               => (i - 1) \notin Elems(matching)

\* position 0 holds [null], position 1 holds []
C14_Witness ==
    /\ pc = "called"
    /\ condition.kind = "IsNull"
    /\ payload = [shape |-> "array", elems |-> <<Arr(<<Null>>), Arr(<<>>)>>]
    /\ matching = <<0>>

(***************************************************************************)
(* Further properties of the merge engines (SpecMerge)                     *)
(***************************************************************************)
\* C16: on every list of per-condition position lists, the empty list
\* included, check_all_nested_conditions over the integer positions and the
\* merged checker over the same positions as decimal strings return the
\* same boolean.
C16_MergeEnginesAgree ==
    (must_opt = "Some" /\ res_payload # "unset" /\ res_index # "unset") =>
        res_payload = res_index

C16_Witness ==
    /\ must_opt = "Some"
    /\ nested_results = <<<<0, 2>>, <<>>, <<0, 2>>>>
    /\ res_payload = "false"
    /\ res_index = "false"

(***************************************************************************)
(* SpecNested: callers evaluating one nested `must` list, point by point,  *)
(* through the merged index-path checker and through the payload-path      *)
(* check_all_nested_conditions.  Indexes and payloads do not change.       *)
(***************************************************************************)
PointIds == {0, 1}
Callers == {1, 2}

NestedPayloads ==
    {[shape |-> "object", elems |-> <<Absent>>],
     [shape |-> "array", elems |-> <<Kw(<<"a">>), Kw(<<"a", "b">>)>>],
     [shape |-> "array", elems |-> <<IntV(1), IntV(2)>>],
     [shape |-> "array", elems |-> <<Null, Kw(<<"a">>)>>]}

TextHasB ==
    CondField(FieldCondition("k", MatchText(<<"b">>),
                             NoRange, NoGeoRadius, NoGeoBoundingBox, NoRange))

RangeAboveOne ==
    CondField(FieldCondition("k", NoMatchCond, Range(None, Some(2), None, None),
                             NoGeoRadius, NoGeoBoundingBox, NoRange))

NestedConditions == {TextHasB, RangeAboveOne, CondIsNull, CondIsEmpty}

NestedRegistries ==
    {[path |-> FullPath(NestedPath, "k"), indexes |-> <<"FullTextIndex", "IntIndex">>],
     [path |-> FullPath(NestedPath, "z"), indexes |-> <<"KeywordIndex", "IntIndex">>]}

Local(cpc, engine, point, i, matches, tally, matching_paths, last, last_usize, result) ==
    [pc |-> cpc, engine |-> engine, point |-> point, i |-> i, matches |-> matches,
     tally |-> tally, matching_paths |-> matching_paths, last |-> last,
     last_usize |-> last_usize, result |-> result]

Idle == Local("idle", "none", 0, 0, EmptyMap, EmptyMap, <<>>, NoMatch, <<>>, "unset")

InitNested ==
    /\ pc = "start"
    /\ points \in [PointIds -> NestedPayloads]
    /\ nested_filter \in {[must |-> SomeConds(cs), should |-> NoneConds, must_not |-> NoneConds] :
                             cs \in SeqsUpTo(NestedConditions, MaxMust)}
    /\ field_indexes \in NestedRegistries
    /\ calls = [c \in Callers |-> Idle]
    /\ payload = NoPayload
    /\ condition = NoCondition
    /\ nested_results = <<>>
    /\ must_opt = "None"
    /\ chosen = NoChecker
    /\ matching = <<>>
    /\ index_result = NoMatch
    /\ res_payload = "unset"
    /\ res_index = "unset"
    /\ evaluated = {}
    /\ res_twin = "unset"
    /\ MmapVarsUnused

MustConds == nested_filter.must.conds

\* the i-th checker of the vector handed to merge_nested_condition_checkers,
\* called on the point
NestedCheckerResult(i, point) ==
    call_nested_checker(nested_condition_converter(MustConds[i], field_indexes, NestedPath),
                        MustConds[i], points[point])

\* a plausible slip: the map outlives the call
KeptMatches(previous) == previous

\* `let mut matches: HashMap<..> = HashMap::new()` at the start of a call
FreshMatches(previous) == EmptyMap

SetCall(c, local) == calls' = [calls EXCEPT ![c] = local]

NestedUnchanged ==
    UNCHANGED <<pc, nested_results, must_opt, payload, nested_filter, condition,
                field_indexes, chosen, matching, index_result, res_payload, res_index,
                evaluated, res_twin, points, mmapVars>>

\* merged(point_id): condition_count and the new map
BeginMerged(c) ==
    /\ calls[c].pc = "idle"
    /\ \E point \in PointIds :
           SetCall(c, Local("running", "merged", point, 0, FreshMatches(calls[c].matches),
                            EmptyMap, <<>>, NoMatch, <<>>, "unset"))
    /\ NestedUnchanged

\* one turn of `for nested_checker in &nested_checkers`
StepMerged(c) ==
    /\ calls[c].pc = "running" /\ calls[c].engine = "merged"
    /\ calls[c].i < Len(MustConds)
    /\ LET result == NestedCheckerResult(calls[c].i + 1, calls[c].point)
       IN SetCall(c, [calls[c] EXCEPT !.i = @ + 1,
                                      !.last = result,
                                      !.matches = TallyResults(<<result>>, @)])
    /\ NestedUnchanged

\* matches.iter().any(|(_, count)| *count == condition_count)
FinishMerged(c) ==
    /\ calls[c].pc = "running" /\ calls[c].engine = "merged"
    /\ calls[c].i = Len(MustConds)
    /\ SetCall(c, [calls[c] EXCEPT !.pc = "idle",
                                   !.result = BoolStr(AnyCountIs(calls[c].matches,
                                                                 Len(MustConds)))])
    /\ NestedUnchanged

\* check_all_nested_conditions(&nested_checker, &Some(conditions))
BeginCheckAll(c) ==
    /\ calls[c].pc = "idle"
    /\ \E point \in PointIds :
           SetCall(c, Local("running", "check_all", point, 0, EmptyMap,
                            EmptyMap, <<>>, NoMatch, <<>>, "unset"))
    /\ NestedUnchanged

\* flat_map(checker) calls the closure on the next condition
StepCheckAll(c) ==
    /\ calls[c].pc = "running" /\ calls[c].engine = "check_all"
    /\ calls[c].i < Len(MustConds)
    /\ LET ms == nested_checker(MustConds[calls[c].i + 1], points[calls[c].point])
       IN SetCall(c, [calls[c] EXCEPT !.i = @ + 1,
                                      !.last_usize = ms,
                                      !.matching_paths = @ \o ms])
    /\ NestedUnchanged

\* the new map, the tally loop and any()
FinishCheckAll(c) ==
    /\ calls[c].pc = "running" /\ calls[c].engine = "check_all"
    /\ calls[c].i = Len(MustConds)
    /\ LET matches == Tally(calls[c].matching_paths, FreshMatches(calls[c].tally))
       IN SetCall(c, [calls[c] EXCEPT !.pc = "idle",
                                      !.tally = matches,
                                      !.result = BoolStr(AnyCountIs(matches, Len(MustConds)))])
    /\ NestedUnchanged

NextNested ==
    \E c \in Callers :
        \/ BeginMerged(c)
        \/ StepMerged(c)
        \/ FinishMerged(c)
        \/ BeginCheckAll(c)
        \/ StepCheckAll(c)
        \/ FinishCheckAll(c)

SpecNested == InitNested /\ [][NextNested]_vars

\* what the whole checker vector returns on the point
ResultsOn(point) == [i \in 1..Len(MustConds) |-> NestedCheckerResult(i, point)]
ListsOn(point) == [i \in 1..Len(MustConds) |-> nested_checker(MustConds[i], points[point])]

\* the result of the call as the first and only call
AsOnlyCall(engine, point) ==
    IF engine = "merged"
    THEN BoolStr(merge_nested_condition_checkers(ResultsOn(point)))
    ELSE BoolStr(check_all_nested_conditions([some |-> TRUE, lists |-> ListsOn(point)]))

\* C13: in every interleaving of calls on any points, a call's tally holds
\* the counts of this call's own results only, starting from the empty map,
\* and a returned call has the result it has as the first and only call.
C13_StatelessAcrossCalls ==
    \A c \in Callers :
        /\ calls[c].pc = "running" /\ calls[c].engine = "merged" =>
               calls[c].matches =
                   TallyResults(SubSeq(ResultsOn(calls[c].point), 1, calls[c].i), EmptyMap)
        /\ calls[c].pc = "idle" /\ calls[c].engine = "check_all" =>
               calls[c].tally = Tally(Flatten(ListsOn(calls[c].point)), EmptyMap)
        /\ calls[c].pc = "idle" /\ calls[c].result # "unset" =>
               calls[c].result = AsOnlyCall(calls[c].engine, calls[c].point)

\* caller 1 is inside a merged call that will return "false", with counts of
\* its own, while caller 2 has returned "true" from a call on another point
C13_Witness ==
    /\ calls[1].pc = "running" /\ calls[1].engine = "merged"
    /\ calls[1].i = Len(MustConds) /\ calls[1].matches # EmptyMap
    /\ AsOnlyCall("merged", calls[1].point) = "false"
    /\ calls[2].pc = "idle" /\ calls[2].engine = "merged" /\ calls[2].result = "true"
    /\ calls[2].point # calls[1].point

\* the checker built for the condition is the full-text closure of the
\* Match::Text arm
IsFullTextChecker(cond) ==
    LET checker == nested_condition_converter(cond, field_indexes, NestedPath)
    IN /\ checker.via = "index"
       /\ checker.index = "FullTextIndex"
       /\ checker.sub = "match"
       /\ cond.fc.match.kind = "Text"

\* C12: for every point, the index-accelerated full-text match checker
\* returns NoMatch, whether get_doc gives a document or not and whatever
\* check_match gives, and a merged filter with N > 0 conditions one of which
\* uses that checker matches no point.
C12_FullTextNeverMatches ==
    \A c \in Callers :
        calls[c].engine = "merged" =>
            /\ calls[c].i >= 1 /\ IsFullTextChecker(MustConds[calls[c].i]) =>
                   calls[c].last = NoMatch
            /\ /\ calls[c].pc = "idle"
               /\ calls[c].result # "unset"
               /\ \E j \in 1..Len(MustConds) : IsFullTextChecker(MustConds[j])
               => calls[c].result = "false"

\* the only condition is the text match, the full-text index holds a
\* document of the point and the query matches it; the merged call is false
C12_Witness ==
    /\ MustConds = <<TextHasB>>
    /\ IsFullTextChecker(TextHasB)
    /\ calls[1].pc = "idle" /\ calls[1].engine = "merged" /\ calls[1].result = "false"
    /\ calls[1].last = NoMatch
    /\ LET doc == get_doc("FullTextIndex", points[calls[1].point])
       IN doc.some /\ check_match(parse_query(TextHasB.fc.match.vals), doc.v)

\* the value sequence the checkers of the point enumerate
ValueSequence(point) == values(get_value(points[point]))

\* check_nested_is_null_condition on a field that is absent from a single object
IsNullOfAbsent(cond, point) ==
    /\ cond.kind = "IsNull"
    /\ get_value(points[point]).tag = "Single"
    /\ ~get_value(points[point]).some

\* the Vec<usize> is strictly increasing and stays below len
WithinValues(ms, len) ==
    /\ StrictlyIncreasing(ms)
    /\ \A k \in 1..Len(ms) : ms[k] < len

\* the same for the Vec<NestedPath> of a NestedConditionCheckerResult
PathsWithinValues(result, len) ==
    \E S \in SUBSET (0..(len - 1)) : result = from_matches(Paths(SortedSeq(S)))

\* no tally exceeds the number of conditions, and a tally of all the
\* conditions means that every condition's list holds the position
TallyWithinConditions(c) ==
    /\ calls[c].engine = "merged" =>
           \A k \in DOMAIN calls[c].matches :
               /\ calls[c].matches[k] <= calls[c].i
               /\ calls[c].matches[k] = calls[c].i =>
                      \A j \in 1..calls[c].i :
                          \E n \in 1..Len(ResultsOn(calls[c].point)[j].paths) :
                              ResultsOn(calls[c].point)[j].paths[n] = k
    /\ calls[c].engine = "check_all" /\ calls[c].pc = "idle" =>
           \A k \in DOMAIN calls[c].tally :
               /\ calls[c].tally[k] <= Len(MustConds)
               /\ calls[c].tally[k] = Len(MustConds) =>
                      \A j \in 1..Len(MustConds) :
                          \E n \in 1..Len(ListsOn(calls[c].point)[j]) :
                              ListsOn(calls[c].point)[j][n] = k

\* C17 as stated: every position list a checker produces is strictly
\* increasing with every position below the length of the value sequence, so
\* no tally exceeds N and a tally of N means all N conditions hold the position.
C17_PositionsWithinValueSequence ==
    \A c \in Callers :
        /\ calls[c].i >= 1 /\ calls[c].engine = "merged" =>
               PathsWithinValues(calls[c].last, Len(ValueSequence(calls[c].point)))
        /\ calls[c].i >= 1 /\ calls[c].engine = "check_all" =>
               WithinValues(calls[c].last_usize, Len(ValueSequence(calls[c].point)))
        /\ TallyWithinConditions(c)

\* the length the positions of the condition stay below: that of the value
\* sequence, or 1 for IsNull on an absent field, which reports position 0
PositionBound(cond, point) ==
    IF IsNullOfAbsent(cond, point) THEN 1 ELSE Len(ValueSequence(point))

\* C17 amended: the lists are strictly increasing and below the length of
\* the value sequence, except that IsNull reports position 0 for an absent
\* field, whose value sequence is empty; the tally bounds hold as stated.
C17_PositionsWithinValuesOrAbsent ==
    \A c \in Callers :
        /\ calls[c].i >= 1 /\ calls[c].engine = "merged" =>
               PathsWithinValues(calls[c].last,
                                 PositionBound(MustConds[calls[c].i], calls[c].point))
        /\ calls[c].i >= 1 /\ calls[c].engine = "check_all" =>
               WithinValues(calls[c].last_usize,
                            PositionBound(MustConds[calls[c].i], calls[c].point))
        /\ TallyWithinConditions(c)

\* a merged call over two conditions has returned "true" with a position
\* counted twice, and the payload checker has reported position 0 for
\* IsNull on an absent field
C17_Witness ==
    /\ Len(MustConds) = 2
    /\ calls[1].pc = "idle" /\ calls[1].engine = "merged" /\ calls[1].result = "true"
    /\ \E k \in DOMAIN calls[1].matches : calls[1].matches[k] = 2
    /\ calls[2].engine = "check_all" /\ calls[2].i >= 1
    /\ IsNullOfAbsent(MustConds[calls[2].i], calls[2].point)
    /\ calls[2].last_usize = <<0>>
    /\ ValueSequence(calls[2].point) = <<>>

(***************************************************************************)
(* SpecMmap: the quantized mmap storage builder                            *)
(* (scalar_quantized_mmap_storage.rs)                                      *)
(***************************************************************************)
Bytes == {0, 255}

\* what the file at `path` holds before new(): nothing, or the bytes of an
\* earlier storage (the file is opened without truncate)
OldFiles == {[i \in 1..n |-> 255] : n \in {0, 1, MaxVectors * MaxVecSize}}

\* file.set_len(size): cut, or extended with zero bytes
set_len(file, size) ==
    IF Len(file) >= size THEN SubSeq(file, 1, size)
    ELSE file \o [i \in 1..(size - Len(file)) |-> 0]

\* QuantizedMmapStorageBuilder::new, the Ok case
new(file, vectors_count, quantized_vector_size) ==
    LET encoded_storage_size == quantized_vector_size * vectors_count
        mmap == set_len(file, encoded_storage_size)
    IN [state |-> "open", mmap |-> mmap, cursor_pos |-> 0]

\* a plausible slip: the cursor stays where it was
push_vector_data_no_advance(self, other) ==
    IF self.cursor_pos + Len(other) > Len(self.mmap)
    THEN [self EXCEPT !.state = "panicked"]
    ELSE [self EXCEPT !.mmap = [i \in 1..Len(self.mmap) |->
                                   IF i > self.cursor_pos /\ i <= self.cursor_pos + Len(other)
                                   THEN other[i - self.cursor_pos] ELSE self.mmap[i]]]

\* push_vector_data: the range index panics before anything is copied when
\* its end is past the mapping
push_vector_data(self, other) ==
    IF self.cursor_pos + Len(other) > Len(self.mmap)
    THEN [self EXCEPT !.state = "panicked"]
    ELSE [self EXCEPT !.mmap = [i \in 1..Len(self.mmap) |->
                                   IF i > self.cursor_pos /\ i <= self.cursor_pos + Len(other)
                                   THEN other[i - self.cursor_pos] ELSE self.mmap[i]],
                      !.cursor_pos = self.cursor_pos + Len(other)]

\* build: flush, make_read_only
build(self) == [built |-> TRUE, mmap |-> self.mmap]

\* &self.mmap[vector_size * index..vector_size * (index + 1)], the range
\* index panics when its end is past the mapping
get_vector_data(self, index, vector_size) ==
    IF vector_size * (index + 1) > Len(self.mmap)
    THEN [index |-> index, ok |-> FALSE, data |-> <<>>]
    ELSE [index |-> index, ok |-> TRUE,
          data |-> SubSeq(self.mmap, vector_size * index + 1, vector_size * (index + 1))]

InitMmap ==
    /\ params \in [vectors_count : 0..MaxVectors,
                   quantized_vector_size : 0..MaxVecSize,
                   file : OldFiles]
    /\ builder = NoBuilder
    /\ storage = NoStorage
    /\ pushed = <<>>
    /\ got = NoGot
    /\ pc = "start"
    /\ payload = NoPayload
    /\ nested_filter = NoFilter
    /\ condition = NoCondition
    /\ field_indexes = NoIndexes
    /\ nested_results = <<>>
    /\ must_opt = "None"
    /\ chosen = NoChecker
    /\ matching = <<>>
    /\ index_result = NoMatch
    /\ res_payload = "unset"
    /\ res_index = "unset"
    /\ evaluated = {}
    /\ res_twin = "unset"
    /\ CallVarsUnused

MmapUnchanged ==
    UNCHANGED <<pc, nested_results, must_opt, payload, nested_filter, condition,
                field_indexes, chosen, matching, index_result, res_payload, res_index,
                evaluated, res_twin, callVars, params>>

CallNew ==
    /\ builder.state = "none"
    /\ builder' = new(params.file, params.vectors_count, params.quantized_vector_size)
    /\ UNCHANGED <<storage, pushed, got>>
    /\ MmapUnchanged

\* the encoder pushes slices of quantized_vector_size bytes; the model stops
\* after one push more than vectors_count
CallPushVectorData ==
    /\ builder.state = "open"
    /\ Len(pushed) <= params.vectors_count
    /\ \E other \in [1..params.quantized_vector_size -> Bytes] :
           /\ builder' = push_vector_data(builder, other)
           /\ pushed' = IF builder'.state = "open" THEN Append(pushed, other) ELSE pushed
    /\ UNCHANGED <<storage, got>>
    /\ MmapUnchanged

CallBuild ==
    /\ builder.state = "open"
    /\ storage' = build(builder)
    /\ builder' = [builder EXCEPT !.state = "moved"]
    /\ UNCHANGED <<pushed, got>>
    /\ MmapUnchanged

CallGetVectorData ==
    /\ storage.built
    /\ \E index \in 0..params.vectors_count :
           got' = get_vector_data(storage, index, params.quantized_vector_size)
    /\ UNCHANGED <<builder, storage, pushed>>
    /\ MmapUnchanged

NextMmap ==
    \/ CallNew
    \/ CallPushVectorData
    \/ CallBuild
    \/ CallGetVectorData

SpecMmap == InitMmap /\ [][NextMmap]_vars

\* the region new() maps
Region == set_len(params.file, params.vectors_count * params.quantized_vector_size)

\* C18: the builder starts at cursor 0 over exactly vectors_count * s bytes;
\* after k <= vectors_count pushes of s bytes the cursor is k * s and every
\* pushed slice is still in its place; after build, get_vector_data(i, s) is
\* the i-th pushed slice for i < k; a push past the end fails without writing.
C18_BuilderRoundTrip ==
    LET s == params.quantized_vector_size
        k == Len(pushed)
    IN /\ builder.state # "none" =>
              /\ Len(builder.mmap) = params.vectors_count * s
              /\ builder.cursor_pos = k * s
              /\ k = 0 => builder.cursor_pos = 0
              /\ \A i \in 1..k : SubSeq(builder.mmap, (i - 1) * s + 1, i * s) = pushed[i]
              /\ SubSeq(builder.mmap, k * s + 1, Len(builder.mmap))
                     = SubSeq(Region, k * s + 1, Len(Region))
       /\ builder.state = "open" => k <= params.vectors_count \/ s = 0
       /\ builder.state = "panicked" => (k + 1) * s > params.vectors_count * s
       /\ storage.built /\ got.ok /\ got.index < k => got.data = pushed[got.index + 1]
       /\ storage.built /\ got.index < k /\ got # NoGot => got.ok

\* two different slices were pushed over old file content, the storage was
\* built and the second slice was read back
C18_Witness ==
    /\ params.file # <<>>
    /\ Len(pushed) = 2
    /\ pushed[1] # pushed[2]
    /\ storage.built
    /\ got.ok /\ got.index = 1 /\ got.data = pushed[2]

====
